---- MODULE Spec2Model ----
(***************************************************************************)
(* The sale-item orchestration of src/workflows.py: SaleItemWorkflow, its  *)
(* run loop, its signal, its updates and its queries, for the two workflow *)
(* ids the program uses (the one src/starter.py starts and the one         *)
(* split_sale_item starts as a child).                                     *)
(*                                                                         *)
(* Handlers of one instance interleave only at their awaits: each action   *)
(* below is the code that runs between two awaits of one coroutine.        *)
(***************************************************************************)
EXTENDS Integers, Sequences, FiniteSets, TLC

VARIABLES
    phase,                \* per workflow id: the position of run()
    input,                \* per workflow id: the SaleItemWorkflowInput of the current run
    sale_item,            \* self.sale_item, None or one SaleItem
    should_update,        \* self.should_update
    sale_item_fulfilled,  \* self.sale_item_fulfilled
    lock,                 \* self.lock is locked
    waiters,              \* the coroutines waiting in self.lock, oldest first
    handler,              \* per workflow id and slot: one update handler invocation
    result,               \* per workflow id: what run() returned
    in_batch,             \* the wait condition came to hold while signals and updates
                          \* were being applied, and is yet to be evaluated
    carried,              \* history: the entity at the last continue-as-new of this id
    calls                 \* history: the number of signals and updates sent so far

vars == <<phase, input, sale_item, should_update, sale_item_fulfilled, lock,
          waiters, handler, result, in_batch, carried, calls>>

-----------------------------------------------------------------------------
(* Bounds *)

\* The signals and updates sent, over all instances.
MaxCalls == 4

-----------------------------------------------------------------------------
(* Values *)

None == << >>

Some(x) == <<x>>

Root == "1234567"

Child == "89101112"

Ids == {Root, Child}

StarterQuantity == 10

\* The update handlers of one instance that can be in flight together.
Slots == {1, 2}

\* The statuses a caller may ask for: the four of the table and one outside it.
Targets == {"open", "ready", "billed_pending", "billed_approved", "cancelled"}

\* The quantities a caller may ask to split off.
SplitQuantities == {-1, 6, 10}

transitions ==
    [s \in {"open", "ready", "billed_pending", "billed_approved"} |->
        CASE s = "open" -> {"ready"}
          [] s = "ready" -> {"open", "billed_pending"}
          [] s = "billed_pending" -> {"billed_approved"}
          [] s = "billed_approved" -> {"billed_pending"}]

\* transitions.get(state, [])
transitions_get(state) ==
    IF state \in DOMAIN transitions THEN transitions[state] ELSE {}

\* A guard that lets every transition pass.
can_transition_always(state, new_state) == TRUE

can_transition(state, new_state) == new_state \in transitions_get(state)

\* StateMachine.transition raises ValueError, which _check_status_transition
\* turns into an ApplicationError: TRUE when nothing is raised.
check_status_transition(current_status, new_status) ==
    can_transition(current_status, new_status)

NoActivity == ""

\* The match statement of update_status: the activity of each target, or the
\* default case.
activity_for(new_status) ==
    CASE new_status = "open" -> "move_from_ready_to_open"
      [] new_status = "ready" -> "move_from_open_to_ready"
      [] new_status = "billed_pending" -> "move_from_ready_to_billed_pending"
      [] new_status = "billed_approved" -> "move_from_billed_pending_to_billed_approved"
      [] OTHER -> NoActivity

\* An initialization that ignores the status of its input.
status_or_open_default(status) == "open"

\* input.status or "open": None and the empty string are falsy.
status_or_open(status) ==
    IF status = None \/ status = Some("") THEN "open" ELSE status[1]

SaleItem(sale_item_id, current_status, quantity) ==
    [sale_item_id |-> sale_item_id, current_status |-> current_status,
     quantity |-> quantity]

SaleItemWorkflowInput(sale_item_id, quantity, status) ==
    [sale_item_id |-> sale_item_id, quantity |-> quantity, status |-> status]

NoInput == SaleItemWorkflowInput("", 0, None)

\* One update handler invocation. pre and post are history: the entity the
\* handler read when it ran its checks, and the entity when it returned.
Idle ==
    [kind |-> "none", pc |-> "idle", status |-> "", quantity |-> 0,
     activity |-> NoActivity, child |-> "none", outcome |-> "",
     pre |-> None, post |-> None]

InFlight(rec) == rec.pc \notin {"idle", "done"}

Running(w) == phase[w] \in {"created", "waiting"}

\* workflow.all_handlers_finished()
all_handlers_finished(w) == \A h \in Slots : ~InFlight(handler[w][h])

\* The slot a new invocation takes: the lowest one with no call in flight.
FreeSlot(w) ==
    IF \E h \in Slots : ~InFlight(handler[w][h])
    THEN CHOOSE h \in Slots :
            /\ ~InFlight(handler[w][h])
            /\ \A g \in Slots : ~InFlight(handler[w][g]) => h <= g
    ELSE 0

Returned(rec, outcome, entity) ==
    [rec EXCEPT !.pc = "done", !.outcome = outcome, !.post = entity]

\* The handlers of w once slot h takes the new invocation rec. The responses
\* delivered before it are forgotten, so that the records of an instance
\* are always those of calls that were in flight together.
Invoked(w, h, rec) ==
    [g \in Slots |->
        IF g = h THEN rec
        ELSE IF InFlight(handler[w][g]) THEN handler[w][g] ELSE Idle]

-----------------------------------------------------------------------------
(* SaleItemWorkflow.__init__ and the start of the first run *)

Init ==
    /\ phase = [w \in Ids |-> IF w = Root THEN "created" ELSE "absent"]
    /\ input = [w \in Ids |->
                  IF w = Root THEN SaleItemWorkflowInput(Root, StarterQuantity, None)
                  ELSE NoInput]
    /\ sale_item = [w \in Ids |-> None]
    /\ should_update = [w \in Ids |-> FALSE]
    /\ sale_item_fulfilled = [w \in Ids |-> FALSE]
    /\ lock = [w \in Ids |-> FALSE]
    /\ waiters = [w \in Ids |-> << >>]
    /\ handler = [w \in Ids |-> [h \in Slots |-> Idle]]
    /\ result = [w \in Ids |-> "none"]
    /\ in_batch = [w \in Ids |-> FALSE]
    /\ carried = [w \in Ids |-> None]
    /\ calls = 0

-----------------------------------------------------------------------------
(* SaleItemWorkflow.run *)

\* The step applied a signal or an update of w.
Applied(w) ==
    in_batch' = [in_batch EXCEPT ![w] =
                    /\ phase[w] = "waiting"
                    /\ should_update'[w] \/ sale_item_fulfilled'[w]
                    /\ \A h \in Slots : ~InFlight(handler'[w][h])]

\* The step resolved what a coroutine of w awaited, or ran run() itself.
Resolved(w) == in_batch' = [in_batch EXCEPT ![w] = FALSE]

\* run() up to its wait_condition.
run_start(w) ==
    /\ phase[w] = "created"
    /\ sale_item' = [sale_item EXCEPT ![w] =
            Some(SaleItem(input[w].sale_item_id, status_or_open(input[w].status),
                          input[w].quantity))]
    /\ should_update' = [should_update EXCEPT ![w] = FALSE]
    /\ phase' = [phase EXCEPT ![w] = "waiting"]
    /\ Resolved(w)
    /\ UNCHANGED <<input, sale_item_fulfilled, lock, waiters, handler, result,
                   carried, calls>>

\* A wait that does not look at the handlers in flight.
wait_condition_flags_only(w) == should_update[w] \/ sale_item_fulfilled[w]

\* A wait that does not look at the fulfilled flag.
wait_condition_restart_only(w) == should_update[w] /\ all_handlers_finished(w)

\* The predicate run() waits for.
wait_condition(w) ==
    /\ should_update[w] \/ sale_item_fulfilled[w]
    /\ all_handlers_finished(w)

\* A run() that looks at the fulfilled flag first.
restarts_unless_fulfilled(w) == should_update[w] /\ ~sale_item_fulfilled[w]

\* if self.should_update: the branch that continues as new.
restarts(w) == should_update[w]

\* The wait condition is evaluated when the event loop has run after a set
\* of jobs: after the signals and updates that arrived together, and after
\* the resolutions (of activities, of child workflows). When it holds after
\* a resolution or after run() reached its wait, run() goes on before any
\* further signal or update is applied.
Accepts(w) ==
    /\ Running(w)
    /\ ~(phase[w] = "waiting" /\ wait_condition(w) /\ ~in_batch[w])

\* run() from the wait_condition to its end: continue-as-new, which starts a
\* new instance (a new __init__) of the same workflow id, or return {}.
run_finish(w) ==
    /\ phase[w] = "waiting"
    /\ wait_condition(w)
    /\ IF restarts(w)
       THEN /\ input' = [input EXCEPT ![w] =
                    SaleItemWorkflowInput(sale_item[w][1].sale_item_id,
                                          sale_item[w][1].quantity,
                                          Some(sale_item[w][1].current_status))]
            /\ carried' = [carried EXCEPT ![w] = sale_item[w]]
            /\ phase' = [phase EXCEPT ![w] = "created"]
            /\ sale_item' = [sale_item EXCEPT ![w] = None]
            /\ should_update' = [should_update EXCEPT ![w] = FALSE]
            /\ sale_item_fulfilled' = [sale_item_fulfilled EXCEPT ![w] = FALSE]
            /\ lock' = [lock EXCEPT ![w] = FALSE]
            /\ waiters' = [waiters EXCEPT ![w] = << >>]
            /\ UNCHANGED result
       ELSE /\ phase' = [phase EXCEPT ![w] = "completed"]
            /\ result' = [result EXCEPT ![w] = "{}"]
            /\ UNCHANGED <<input, carried, sale_item, should_update,
                           sale_item_fulfilled, lock, waiters>>
    /\ Resolved(w)
    /\ UNCHANGED <<handler, calls>>

-----------------------------------------------------------------------------
(* The signal and the restart update *)

mark_fulfilled(w) ==
    /\ Accepts(w)
    /\ calls < MaxCalls
    /\ calls' = calls + 1
    /\ sale_item_fulfilled' = [sale_item_fulfilled EXCEPT ![w] = TRUE]
    /\ UNCHANGED <<phase, input, sale_item, should_update, lock, waiters,
                   handler, result, carried>>
    /\ Applied(w)

update_workflow(w) ==
    /\ Accepts(w)
    /\ calls < MaxCalls
    /\ calls' = calls + 1
    /\ should_update' = [should_update EXCEPT ![w] = TRUE]
    /\ UNCHANGED <<phase, input, sale_item, sale_item_fulfilled, lock, waiters,
                   handler, result, carried>>
    /\ Applied(w)

-----------------------------------------------------------------------------
(* SaleItemWorkflow.update_status *)

\* Checks that take an entity not yet constructed for a valid one.
update_status_checks_unguarded(item, status) ==
    IF item = None THEN "ok"
    ELSE IF ~check_status_transition(item[1].current_status, status)
    THEN "InvalidTransition"
    ELSE IF activity_for(status) = NoActivity THEN "InvalidStatus"
    ELSE "ok"

\* What update_status raises before its first await, in the order of the
\* code: the initialization check, the guard, the default case of the match.
update_status_checks(item, status) ==
    IF item = None THEN "NotInitialized"
    ELSE IF ~check_status_transition(item[1].current_status, status)
    THEN "InvalidTransition"
    ELSE IF activity_for(status) = NoActivity THEN "InvalidStatus"
    ELSE "ok"

\* update_status up to its first await: the initialization check, the guard,
\* and the match that dispatches the activity of the target.
update_status(w, h, status) ==
    /\ Accepts(w)
    /\ calls < MaxCalls
    /\ h = FreeSlot(w)
    /\ calls' = calls + 1
    /\ LET rec == [Idle EXCEPT !.kind = "update_status", !.status = status,
                               !.pre = sale_item[w]]
           raised == update_status_checks(sale_item[w], status)
       IN  handler' = [handler EXCEPT ![w] = Invoked(w, h,
             IF raised # "ok"
             THEN Returned(rec, raised, sale_item[w])
             ELSE [rec EXCEPT !.pc = "activity", !.activity = activity_for(status)])]
    /\ UNCHANGED <<phase, input, sale_item, should_update, sale_item_fulfilled,
                   lock, waiters, result, carried>>
    /\ Applied(w)

\* An update that forgets to store the new status.
advance_nothing(item, new_status) == item

\* self.sale_item.current_status = new_status
advance(item, new_status) == [item EXCEPT !.current_status = new_status]

\* The activity returned: the rest of update_status.
activity_completed(w, h) ==
    /\ handler[w][h].pc = "activity"
    /\ LET new_status == handler[w][h].status
           updated == Some(advance(sale_item[w][1], new_status))
       IN  /\ sale_item' = [sale_item EXCEPT ![w] = updated]
           /\ sale_item_fulfilled' = [sale_item_fulfilled EXCEPT ![w] =
                                        @ \/ new_status = "billed_approved"]
           /\ handler' = [handler EXCEPT ![w][h] = Returned(@, "ok", updated)]
    /\ Resolved(w)
    /\ UNCHANGED <<phase, input, should_update, lock, waiters, result, carried,
                   calls>>

\* A failure that comes after the new status was stored.
activity_failed_status_stored(w, h) ==
    /\ handler[w][h].pc = "activity"
    /\ sale_item' = [sale_item EXCEPT ![w] =
            Some(advance(sale_item[w][1], handler[w][h].status))]
    /\ handler' = [handler EXCEPT ![w][h] = Returned(@, "ActivityError", sale_item'[w])]
    /\ Resolved(w)
    /\ UNCHANGED <<phase, input, should_update, sale_item_fulfilled, lock, waiters,
                   result, carried, calls>>

\* execute_activity raised (a non-retryable failure, or the activity was
\* cancelled): the exception leaves update_status.
activity_failed(w, h) ==
    /\ handler[w][h].pc = "activity"
    /\ handler' = [handler EXCEPT ![w][h] = Returned(@, "ActivityError", sale_item[w])]
    /\ Resolved(w)
    /\ UNCHANGED <<phase, input, sale_item, should_update, sale_item_fulfilled,
                   lock, waiters, result, carried, calls>>

-----------------------------------------------------------------------------
(* SaleItemWorkflow.split_sale_item *)

\* The body under the lock, up to the await of the child workflow, of the
\* invocation in slot h of the handlers hs.
split_body(w, h, hs) ==
    LET quantity == hs[h].quantity
        seen == [hs[h] EXCEPT !.pre = sale_item[w]]
    IN  IF sale_item[w][1].quantity < quantity
        THEN /\ handler' = [handler EXCEPT ![w] = [hs EXCEPT ![h] =
                    Returned(seen, "InsufficientQuantity", sale_item[w])]]
             /\ lock' = [lock EXCEPT ![w] = FALSE]
             /\ UNCHANGED sale_item
        ELSE /\ sale_item' = [sale_item EXCEPT ![w] =
                    Some([sale_item[w][1] EXCEPT !.quantity = @ - quantity])]
             /\ handler' = [handler EXCEPT ![w] = [hs EXCEPT ![h] =
                    [seen EXCEPT !.pc = "child_start", !.child = "requested"]]]
             /\ lock' = [lock EXCEPT ![w] = TRUE]

\* split_sale_item up to its first await: the initialization check, then
\* the lock, taken at once when it is free and nobody waits for it.
split_sale_item(w, h, quantity) ==
    /\ Accepts(w)
    /\ calls < MaxCalls
    /\ h = FreeSlot(w)
    /\ calls' = calls + 1
    /\ LET rec == [Idle EXCEPT !.kind = "split_sale_item", !.quantity = quantity]
       IN  IF sale_item[w] = None
           THEN /\ handler' = [handler EXCEPT ![w] = Invoked(w, h,
                        Returned(rec, "NotInitialized", sale_item[w]))]
                /\ UNCHANGED <<sale_item, lock, waiters>>
           ELSE IF ~lock[w] /\ waiters[w] = << >>
           THEN /\ split_body(w, h, Invoked(w, h, rec))
                /\ UNCHANGED waiters
           ELSE /\ handler' = [handler EXCEPT ![w] = Invoked(w, h,
                        [rec EXCEPT !.pc = "wait_lock"])]
                /\ waiters' = [waiters EXCEPT ![w] = Append(@, h)]
                /\ UNCHANGED <<sale_item, lock>>
    /\ UNCHANGED <<phase, input, should_update, sale_item_fulfilled, result, carried>>
    /\ Applied(w)

\* The lock was released and the oldest waiter takes it.
lock_acquired(w, h) ==
    /\ handler[w][h].pc = "wait_lock"
    /\ ~lock[w]
    /\ waiters[w] # << >>
    /\ Head(waiters[w]) = h
    /\ waiters' = [waiters EXCEPT ![w] = Tail(@)]
    /\ split_body(w, h, handler[w])
    /\ Resolved(w)
    /\ UNCHANGED <<phase, input, should_update, sale_item_fulfilled, result,
                   carried, calls>>

\* The workflow id of the child: f"sale-item-poc-workflow-{new_sale_item.sale_item_id}",
\* with the sale_item_id every split gives its new item.
child_of(w) == Child

\* The child workflow was started: a new instance of child_of(w).
child_started(w, h) ==
    /\ handler[w][h].pc = "child_start"
    /\ ~Running(child_of(w))
    /\ LET c == child_of(w)
       IN  /\ phase' = [phase EXCEPT ![c] = "created"]
           /\ input' = [input EXCEPT ![c] =
                    SaleItemWorkflowInput(Child, handler[w][h].quantity, None)]
           /\ sale_item' = [sale_item EXCEPT ![c] = None]
           /\ should_update' = [should_update EXCEPT ![c] = FALSE]
           /\ sale_item_fulfilled' = [sale_item_fulfilled EXCEPT ![c] = FALSE]
           /\ lock' = [lock EXCEPT ![c] = FALSE]
           /\ waiters' = [waiters EXCEPT ![c] = << >>]
           /\ result' = [result EXCEPT ![c] = "none"]
           /\ in_batch' = [in_batch EXCEPT ![c] = FALSE, ![w] = FALSE]
           /\ carried' = [carried EXCEPT ![c] = None]
           /\ handler' = [handler EXCEPT ![c] = [g \in Slots |-> Idle],
                                         ![w][h] = [handler[w][h] EXCEPT
                                                      !.pc = "child_run",
                                                      !.child = "started"]]
    /\ UNCHANGED calls

\* A failed start that leaves the lock taken.
child_start_failed_keeps_lock(w, h) ==
    /\ handler[w][h].pc = "child_start"
    /\ Running(child_of(w))
    /\ handler' = [handler EXCEPT ![w][h] =
            Returned([@ EXCEPT !.child = "rejected"], "WorkflowAlreadyStarted",
                     sale_item[w])]
    /\ Resolved(w)
    /\ UNCHANGED <<phase, input, sale_item, should_update, sale_item_fulfilled,
                   lock, waiters, result, carried, calls>>

\* The child workflow could not be started, its workflow id being that of a
\* running workflow: execute_child_workflow raises, the lock is released.
child_start_failed(w, h) ==
    /\ handler[w][h].pc = "child_start"
    /\ Running(child_of(w))
    /\ handler' = [handler EXCEPT ![w][h] =
            Returned([@ EXCEPT !.child = "rejected"], "WorkflowAlreadyStarted",
                     sale_item[w])]
    /\ lock' = [lock EXCEPT ![w] = FALSE]
    /\ Resolved(w)
    /\ UNCHANGED <<phase, input, sale_item, should_update, sale_item_fulfilled,
                   waiters, result, carried, calls>>

\* The child workflow returned: split_sale_item returns its result and
\* releases the lock.
child_completed(w, h) ==
    /\ handler[w][h].pc = "child_run"
    /\ phase[child_of(w)] = "completed"
    /\ handler' = [handler EXCEPT ![w][h] = Returned(@, "ok", sale_item[w])]
    /\ lock' = [lock EXCEPT ![w] = FALSE]
    /\ Resolved(w)
    /\ UNCHANGED <<phase, input, sale_item, should_update, sale_item_fulfilled,
                   waiters, result, carried, calls>>

-----------------------------------------------------------------------------
(* Queries *)

get_sale_item(w) == sale_item[w]

\* A query that answers only once the entity is constructed.
get_transitions_initialized(w) ==
    IF sale_item[w] = None THEN [s \in {} |-> {}] ELSE transitions

get_transitions(w) == transitions

-----------------------------------------------------------------------------
(* The specification *)

Next ==
    \E w \in Ids :
        \/ run_start(w)
        \/ run_finish(w)
        \/ mark_fulfilled(w)
        \/ update_workflow(w)
        \/ \E h \in Slots :
            \/ \E status \in Targets : update_status(w, h, status)
            \/ activity_completed(w, h)
            \/ activity_failed(w, h)
            \/ \E quantity \in SplitQuantities : split_sale_item(w, h, quantity)
            \/ lock_acquired(w, h)
            \/ child_started(w, h)
            \/ child_start_failed(w, h)
            \/ child_completed(w, h)

Spec == Init /\ [][Next]_vars

-----------------------------------------------------------------------------
(* Vocabulary of the properties *)

\* t is reachable from s in one step of the transition table.
Edge(s, t) == s \in DOMAIN transitions /\ t \in transitions[s]

\* This step is the invocation of the update handler in slot h of w.
Invokes(w, h) ==
    /\ calls' = calls + 1
    /\ handler'[w][h] # handler[w][h]
    /\ handler'[w][h].kind # "none"

\* This step is the one in which the update handler in slot h of w returns
\* or raises.
Returns(w, h) ==
    /\ handler'[w][h].pc = "done"
    /\ Invokes(w, h) \/ InFlight(handler[w][h])

\* This step ends the current instance of w: run() returns or continues as new.
Ends(w) == phase[w] = "waiting" /\ phase'[w] # "waiting"

-----------------------------------------------------------------------------
(* Properties *)

\* C1: an update_status whose target is not in transitions[current] fails
\* with the invalid-transition error in the step that invokes it, dispatches
\* no activity, and leaves the entity and the fulfilled flag as they were.
C1_InvalidTransitionRejected ==
    [][\A w \in Ids, h \in Slots :
        ( /\ Invokes(w, h)
          /\ handler'[w][h].kind = "update_status"
          /\ sale_item[w] # None
          /\ ~Edge(sale_item[w][1].current_status, handler'[w][h].status) )
        => /\ handler'[w][h].pc = "done"
           /\ handler'[w][h].outcome = "InvalidTransition"
           /\ handler'[w][h].activity = NoActivity
           /\ sale_item'[w] = sale_item[w]
           /\ sale_item_fulfilled'[w] = sale_item_fulfilled[w]]_vars

\* An update_status(billed_approved) made on an open entity was rejected.
C1_Witness ==
    \E w \in Ids, h \in Slots :
        /\ handler[w][h].kind = "update_status"
        /\ handler[w][h].pc = "done"
        /\ handler[w][h].outcome = "InvalidTransition"
        /\ handler[w][h].status = "billed_approved"
        /\ handler[w][h].pre # None
        /\ handler[w][h].pre[1].current_status = "open"
        /\ handler[w][h].post = handler[w][h].pre

\* C2: when an update_status whose target was in transitions[current]
\* returns successfully, get_sale_item reads the target as the status, and
\* the entity returned carries the target.
C2_SuccessfulUpdateSetsTarget ==
    [][\A w \in Ids, h \in Slots :
        ( /\ Returns(w, h)
          /\ handler'[w][h].kind = "update_status"
          /\ handler'[w][h].outcome = "ok"
          /\ handler'[w][h].pre # None
          /\ Edge(handler'[w][h].pre[1].current_status, handler'[w][h].status) )
        => /\ get_sale_item(w)' # None
           /\ get_sale_item(w)'[1].current_status = handler'[w][h].status
           /\ handler'[w][h].post # None
           /\ handler'[w][h].post[1].current_status = handler'[w][h].status]_vars

\* An update_status(billed_pending) made on a ready entity has returned the
\* entity with the status billed_pending.
C2_Witness ==
    \E w \in Ids, h \in Slots :
        /\ handler[w][h].kind = "update_status"
        /\ handler[w][h].pc = "done"
        /\ handler[w][h].outcome = "ok"
        /\ handler[w][h].status = "billed_pending"
        /\ handler[w][h].pre # None
        /\ handler[w][h].pre[1].current_status = "ready"
        /\ handler[w][h].post # None
        /\ handler[w][h].post[1].current_status = "billed_pending"
        /\ sale_item[w] = handler[w][h].post

\* C3: within one instance, every change of the entity's status goes along
\* an edge of the transition table, whatever the interleaving of the
\* update_status handlers.
C3_StatusFollowsTable ==
    [][\A w \in Ids :
        ( /\ sale_item[w] # None
          /\ sale_item'[w] # None
          /\ sale_item'[w][1].current_status # sale_item[w][1].current_status )
        => Edge(sale_item[w][1].current_status, sale_item'[w][1].current_status)]_vars

\* The split_sale_item invocations of w that have run their body.
SplitsRun(w) ==
    {h \in Slots : handler[w][h].kind = "split_sale_item" /\ handler[w][h].pre # None}

\* C4: two overlapping split_sale_item calls on one parent never both succeed
\* when their quantities add up to more than the parent's quantity; with
\* quantity 10 and two splits of 6, exactly one succeeds, the other fails
\* with the insufficient-quantity error, and the parent ends with 4.
C4_OverlappingSplitsExclude ==
    \A w \in Ids : \A a, b \in SplitsRun(w) :
        ( /\ a # b
          /\ handler[w][a].pc = "done"
          /\ handler[w][b].pc = "done"
          /\ handler[w][b].pre[1].quantity <= handler[w][a].pre[1].quantity )
        => LET first == handler[w][a]
               second == handler[w][b]
               available == first.pre[1].quantity
           IN  /\ first.quantity + second.quantity > available
                    => ~(first.outcome = "ok" /\ second.outcome = "ok")
               /\ (available = 10 /\ first.quantity = 6 /\ second.quantity = 6)
                    => /\ first.outcome = "ok"
                       /\ second.outcome = "InsufficientQuantity"
                       /\ second.post[1].quantity = 4

\* C5: split_sale_item(q) on a parent with quantity Q fails with the
\* insufficient-quantity error, changes nothing and starts no child when
\* q > Q; when q <= Q the parent's quantity becomes Q - q and one child is
\* started, with quantity q and status open.
C5_SplitContract ==
    \A w \in Ids : \A h \in SplitsRun(w) :
        LET rec == handler[w][h]
            Q == rec.pre[1].quantity
            q == rec.quantity
        IN  IF q > Q
            THEN /\ rec.pc = "done"
                 /\ rec.outcome = "InsufficientQuantity"
                 /\ rec.post = rec.pre
                 /\ rec.child = "none"
            ELSE /\ rec.pc # "done" => sale_item[w][1].quantity = Q - q
                 /\ rec.pc = "done" =>
                        /\ rec.outcome = "ok"
                        /\ rec.child = "started"
                        /\ rec.post[1].quantity = Q - q
                 /\ (rec.pc = "child_run" /\ carried[child_of(w)] = None) =>
                        /\ input[child_of(w)].quantity = q
                        /\ status_or_open(input[child_of(w)].status) = "open"

\* C6: the quantity of every entity, parent or child, is never negative.
C6_QuantityNonNegative ==
    \A w \in Ids : sale_item[w] # None => sale_item[w][1].quantity >= 0

\* C7: an instance neither returns nor continues as new while one of its
\* update handlers is in flight: the step that ends an instance finds every
\* handler finished, and takes no handler's response away.
C7_NoEndWhileHandlerInFlight ==
    [][\A w \in Ids :
        Ends(w) => /\ \A h \in Slots : handler[w][h].pc \in {"idle", "done"}
                   /\ handler'[w] = handler[w]]_vars

\* The instance has been marked fulfilled while an update is pending, and is
\* still waiting.
C7_Witness ==
    \E w \in Ids, h \in Slots :
        /\ phase[w] = "waiting"
        /\ sale_item_fulfilled[w]
        /\ handler[w][h].pc \in {"activity", "wait_lock", "child_start", "child_run"}

\* C8: the instance that follows a continue-as-new is initialized with the
\* id, quantity and status the entity had at the restart: get_sale_item
\* after the initialization equals get_sale_item before the restart.
C8_RestartCarriesEntity ==
    [][\A w \in Ids :
        /\ (Ends(w) /\ phase'[w] = "created")
                => /\ get_sale_item(w) # None
                   /\ carried'[w] = get_sale_item(w)
        /\ (phase[w] = "created" /\ phase'[w] = "waiting" /\ carried[w] # None)
                => get_sale_item(w)' = carried[w]]_vars

\* A restarted instance has been initialized with an entity that is neither
\* open nor of the starting quantity.
C8_Witness ==
    \E w \in Ids :
        /\ phase[w] = "waiting"
        /\ carried[w] # None
        /\ sale_item[w] = carried[w]
        /\ carried[w][1].current_status # "open"
        /\ carried[w][1].quantity # StarterQuantity

\* C9: when the fulfilled flag is set, no restart is requested and no
\* handler is in flight, the waiting run() can go on, and the step that ends
\* the instance returns the empty result and does not continue as new.
C9_FulfilledTerminates ==
    [][\A w \in Ids :
        ( /\ phase[w] = "waiting"
          /\ sale_item_fulfilled[w]
          /\ ~should_update[w]
          /\ \A h \in Slots : handler[w][h].pc \in {"idle", "done"} )
        => /\ ENABLED run_finish(w)
           /\ Ends(w) => /\ phase'[w] = "completed"
                         /\ result'[w] = "{}"
                         /\ input'[w] = input[w]
                         /\ carried'[w] = carried[w]]_vars

\* An instance fulfilled by an update_status to billed_approved, with no
\* restart requested, has returned the empty result.
C9_Witness ==
    \E w \in Ids :
        /\ phase[w] = "completed"
        /\ result[w] = "{}"
        /\ sale_item_fulfilled[w]
        /\ ~should_update[w]
        /\ sale_item[w][1].current_status = "billed_approved"

\* C10: when the restart flag and the fulfilled flag are both set as the
\* wait ends, the instance continues as new with its entity and does not
\* return the empty result.
C10_RestartTakesPrecedence ==
    [][\A w \in Ids :
        (Ends(w) /\ should_update[w] /\ sale_item_fulfilled[w])
        => /\ phase'[w] = "created"
           /\ result'[w] = "none"
           /\ input'[w] = SaleItemWorkflowInput(sale_item[w][1].sale_item_id,
                                                sale_item[w][1].quantity,
                                                Some(sale_item[w][1].current_status))]_vars

\* An instance whose entity had reached billed_approved, which sets the
\* fulfilled flag, has continued as new.
C10_Witness ==
    \E w \in Ids :
        /\ phase[w] = "created"
        /\ result[w] = "none"
        /\ carried[w] # None
        /\ carried[w][1].current_status = "billed_approved"

\* The first three commands of the scenario have been handled: from the
\* starter's open entity, three calls have brought the status to
\* billed_approved, which takes update_status(ready), (billed_pending) and
\* (billed_approved), each one invoked after the one before it returned.
C11_AfterThree ==
    /\ calls = 3
    /\ sale_item[Root] # None
    /\ sale_item[Root][1].current_status = "billed_approved"

\* C11: from id "1234567", quantity 10, status open, the sequence
\* update_status(ready), (billed_pending), (billed_approved) succeeds and
\* sets the fulfilled flag, and a fourth command update_status(open) is
\* then handled by the instance, fails with the invalid-transition error
\* and leaves the status billed_approved.
C11_StarterScenario ==
    [][C11_AfterThree =>
        /\ sale_item[Root][1] = SaleItem(Root, "billed_approved", StarterQuantity)
        /\ sale_item_fulfilled[Root]
        /\ ENABLED update_status(Root, FreeSlot(Root), "open")
        /\ \A h \in Slots :
              ( /\ Invokes(Root, h)
                /\ handler'[Root][h].kind = "update_status"
                /\ handler'[Root][h].status = "open" )
              => /\ handler'[Root][h].outcome = "InvalidTransition"
                 /\ sale_item'[Root] = sale_item[Root]]_vars

\* C12: update_status and split_sale_item invoked before run() has
\* constructed the entity fail with the not-initialized error in the step
\* that invokes them, dispatch no activity, start no child, and leave the
\* entity, the restart flag, the fulfilled flag and the lock as they were;
\* get_sale_item then still finds no entity.
C12_NotInitializedRejected ==
    [][\A w \in Ids, h \in Slots :
        (Invokes(w, h) /\ sale_item[w] = None)
        => /\ handler'[w][h].pc = "done"
           /\ handler'[w][h].outcome = "NotInitialized"
           /\ handler'[w][h].activity = NoActivity
           /\ handler'[w][h].child = "none"
           /\ phase'[child_of(w)] = phase[child_of(w)]
           /\ get_sale_item(w)' = None
           /\ should_update'[w] = should_update[w]
           /\ sale_item_fulfilled'[w] = sale_item_fulfilled[w]
           /\ lock'[w] = lock[w]
           /\ waiters'[w] = waiters[w]]_vars

\* An update_status made on a restarted instance before its run() has
\* constructed the entity was rejected with the not-initialized error.
C12_Witness ==
    \E w \in Ids, h \in Slots :
        /\ phase[w] = "created"
        /\ carried[w] # None
        /\ sale_item[w] = None
        /\ handler[w][h].kind = "update_status"
        /\ handler[w][h].pc = "done"
        /\ handler[w][h].outcome = "NotInitialized"
        /\ handler[w][h].pre = None
        /\ ~lock[w]

C14_UnknownTargetInvalidStatus ==
    [][\A w \in Ids, h \in Slots :
        ( /\ Invokes(w, h)
          /\ handler'[w][h].kind = "update_status"
          /\ handler'[w][h].status \notin DOMAIN transitions
          /\ sale_item[w] # None )
        => /\ handler'[w][h].pc = "done"
           /\ handler'[w][h].outcome = "InvalidStatus"
           /\ sale_item'[w] = sale_item[w]]_vars

\* The ids of the entities created so far: an instance of workflow id x
\* holds the entity of id x.
CreatedIds == {x \in Ids : phase[x] # "absent"}

\* C15: every entity has its own id. The step that starts the child of a
\* split creates an entity whose id differs from the parent's and from the
\* id of every entity created so far; and the id of an entity never changes,
\* neither while its instance runs nor across a continue-as-new.
C15_EveryEntityOwnId ==
    [][\A w \in Ids :
        /\ \A h \in Slots :
              (handler[w][h].pc = "child_start" /\ handler'[w][h].pc = "child_run")
              => /\ input'[child_of(w)].sale_item_id # sale_item[w][1].sale_item_id
                 /\ input'[child_of(w)].sale_item_id \notin CreatedIds
        /\ (sale_item[w] # None /\ sale_item'[w] # None)
              => sale_item'[w][1].sale_item_id = sale_item[w][1].sale_item_id
        /\ (Ends(w) /\ phase'[w] = "created")
              => input'[w].sale_item_id = sale_item[w][1].sale_item_id]_vars

\* C16: in every reachable state of every instance, initialized or not,
\* get_transitions returns exactly the table open -> {ready},
\* ready -> {open, billed_pending}, billed_pending -> {billed_approved},
\* billed_approved -> {billed_pending}.
C16_TransitionsStatic ==
    \A w \in Ids :
        /\ DOMAIN get_transitions(w) =
                {"open", "ready", "billed_pending", "billed_approved"}
        /\ get_transitions(w)["open"] = {"ready"}
        /\ get_transitions(w)["ready"] = {"open", "billed_pending"}
        /\ get_transitions(w)["billed_pending"] = {"billed_approved"}
        /\ get_transitions(w)["billed_approved"] = {"billed_pending"}

\* An instance restarted with a billed_pending entity, whose run() has not
\* yet constructed it, answers get_transitions with four rows.
C16_Witness ==
    \E w \in Ids :
        /\ phase[w] = "created"
        /\ sale_item[w] = None
        /\ carried[w] # None
        /\ carried[w][1].current_status = "billed_pending"
        /\ Cardinality(DOMAIN get_transitions(w)) = 4

\* C17: a continue-as-new does not lose the fulfilled condition: when the
\* fulfilled flag is set as an instance continues as new, the instance that
\* follows it is fulfilled too, so that it can end once no restart is
\* requested and no handler is in flight.
C17_RestartKeepsFulfilled ==
    [][\A w \in Ids :
        (Ends(w) /\ phase'[w] = "created" /\ sale_item_fulfilled[w])
        => sale_item_fulfilled'[w]]_vars

\* C18: a restart request is never lost: once update_workflow has set the
\* restart flag of an instance, whenever it was delivered, the request
\* stays pending until the instance continues as new.
C18_RestartRequestKept ==
    [][\A w \in Ids :
        should_update[w]
        => \/ should_update'[w]
           \/ Ends(w) /\ phase'[w] = "created"]_vars

\* The split_sale_item handlers of w inside the body guarded by the lock:
\* past the quantity check, awaiting the child workflow.
InBody(w) == {h \in Slots : handler[w][h].pc \in {"child_start", "child_run"}}

\* C19: at most one split_sale_item handler of an instance is inside the
\* guarded body at a time, the lock is held for as long as one is, and it
\* is free whenever none is: every exit of the body, by return or by
\* failure, releases it.
C19_LockScoped ==
    \A w \in Ids :
        /\ Cardinality(InBody(w)) <= 1
        /\ lock[w] <=> InBody(w) # {}
        /\ \A h \in Slots : handler[w][h].pc = "wait_lock"
                => \E i \in 1..Len(waiters[w]) : waiters[w][i] = h

\* A split that waited for the lock has taken it after the split that held
\* it returned.
C19_Witness ==
    \E w \in Ids : \E a, b \in Slots :
        /\ a # b
        /\ handler[w][a].kind = "split_sale_item"
        /\ handler[w][a].pc = "done"
        /\ handler[w][a].outcome = "ok"
        /\ handler[w][b].kind = "split_sale_item"
        /\ handler[w][b].pc = "child_start"
        /\ lock[w]
        /\ waiters[w] = << >>

\* C20: a split_sale_item call that fails, for whatever reason, leaves the
\* quantity of its entity as it found it: when the call fails, the quantity
\* is the one it read when it ran its checks, no other split of the
\* instance having run since.
C20_FailedSplitKeepsQuantity ==
    [][\A w \in Ids, h \in Slots :
        ( /\ Returns(w, h)
          /\ handler'[w][h].kind = "split_sale_item"
          /\ handler'[w][h].outcome # "ok" )
        => /\ sale_item'[w] = sale_item[w]
           /\ handler'[w][h].pre # None
                => sale_item'[w][1].quantity = handler'[w][h].pre[1].quantity]_vars

====
